---- MODULE Spec2Model ----
(***************************************************************************)
(* Model of WalkPathNavApp (yoe.py): the Tk UI thread with its handlers    *)
(* (start_navigation, stop_navigation, on_close, update_frame, the status  *)
(* callbacks posted with window.after) and the advisory worker threads     *)
(* running run_gemini_assistant.  Time is a discrete clock in seconds,     *)
(* kept as elapsed = time.time() - last_spoken_time, the only use the code *)
(* makes of either value.                                                  *)
(***************************************************************************)
EXTENDS Integers, Sequences, FiniteSets, TLC

\* ---- bounds of the model ----
MaxSessions == 2   \* successful camera opens explored

\* ---- program constants ----
Interval == 4      \* seconds between advisory requests

\* is_running, cap, latest_frame, ai_thread: the fields set at lines 37-40;
\*   cap is "None", "opened" or "unopened" (a VideoCapture whose open failed),
\*   latest_frame is 0 (None) or the session the stored frame was read in
\* elapsed: time.time() - last_spoken_time, counted up to Interval + 1
\* btn_start, btn_stop, video_label, ai_status_label: the widgets' state
\* after_queue: status callbacks posted with window.after(0, ...), not yet run
\* tick_pending: update_frame callbacks posted with window.after(20, ...)
\* ui_pc: where the UI thread is: "idle" in the mainloop, or blocked inside a
\*   handler ("start_speak", "start_frame", "stop_speak", "close_speak")
\* destroy_pending: window.after(200, destroy) is posted; alive: not destroyed
\* workers[s]: the thread started by the s-th successful Start; pc is "none"
\*   (not started), "loop", "ask", "call", "speak" or "done"; say is the
\*   text its speak() call is uttering while pc is "speak"
\* opens, released, stop_events, lastOp: history, not program state: cameras
\*   opened so far, release() calls per session, what the latest Stop did to
\*   the controls and the camera in the order it did it, and the outcome of
\*   the handler the last step ran, "read_failed" after an update_frame
\*   whose cap.read() returned no frame ("other" for every other step)
VARIABLES is_running, cap, latest_frame, ai_thread, elapsed,
          btn_start, btn_stop, video_label, ai_status_label,
          after_queue, tick_pending, ui_pc, destroy_pending, alive,
          workers, opens, released, stop_events, lastOp

vars == <<is_running, cap, latest_frame, ai_thread, elapsed,
          btn_start, btn_stop, video_label, ai_status_label,
          after_queue, tick_pending, ui_pc, destroy_pending, alive,
          workers, opens, released, stop_events, lastOp>>

Sessions == 1..MaxSessions

\* ---- texts: a text is a sequence of tokens; a literal is one token ----
StandingBy == <<"Standing by...">>
Activating == <<"Activating systems...">>
Offline == <<"System offline. Press Start to begin.">>
Analyzing == <<"Analyzing scene...">>
AIError == <<"AI Error: Could not get navigation cue.">>
CuePrefix == <<"AI Cue: ">>

Whitespace == {" "}

\* response.text values the remote model may return
Responses == { <<"a">>, <<" ", "*", " ", "a", "*">> }

RECURSIVE LStrip(_)
LStrip(s) == IF s # <<>> /\ Head(s) \in Whitespace THEN LStrip(Tail(s)) ELSE s

RECURSIVE RStrip(_)
RStrip(s) == IF s # <<>> /\ s[Len(s)] \in Whitespace
             THEN RStrip(SubSeq(s, 1, Len(s) - 1)) ELSE s

\* str.strip()
Strip(s) == RStrip(LStrip(s))

\* str.replace("*", "")
RemoveStars(s) == SelectSeq(s, LAMBDA c : c # "*")

\* response.text.strip().replace("*", "")
Clean(t) == RemoveStars(Strip(t))

\* f"AI Cue: {advice}"
CueText(advice) == CuePrefix \o advice

\* ---- worker thread records ----
NoWorker == [pc |-> "none", say |-> <<>>]

\* threading.Thread(target=self.run_gemini_assistant).start()
NewWorker == [pc |-> "loop", say |-> <<>>]

Init ==
    /\ is_running = FALSE
    /\ cap = "None"
    /\ latest_frame = 0
    /\ ai_thread = 0
    /\ elapsed = Interval + 1
    /\ btn_start = "normal"
    /\ btn_stop = "disabled"
    /\ video_label = 0
    /\ ai_status_label = StandingBy
    /\ after_queue = <<>>
    /\ tick_pending = 0
    /\ ui_pc = "idle"
    /\ destroy_pending = FALSE
    /\ alive = TRUE
    /\ workers = [s \in Sessions |-> NoWorker]
    /\ opens = 0
    /\ released = [s \in Sessions |-> 0]
    /\ stop_events = <<>>
    /\ lastOp = "init"

\* the UI thread is in the mainloop, between two callbacks
InMainloop == alive /\ ui_pc = "idle"

\* self.window.after(0, lambda: self.ai_status_label.config(text=text))
\* The callbacks run oldest first and each only overwrites the label, which no
\* code reads: of the callbacks pending together the newest decides the text
\* that stays, so after_queue keeps that one.
update_status_label(q, text) == <<text>>

\* the mainloop is free to run a handler or a timer callback: the status
\* callbacks, due at once, have run.  No handler reads the label, so running
\* a handler ahead of a pending status callback would differ only in the
\* text the label holds in between.
UiIdle == InMainloop /\ after_queue = <<>>

\* ---- the camera (cv2.VideoCapture) ----
\* mutant: the release is skipped
ReleaseCallsSkipped(c) == 0

\* if self.cap: self.cap.release()  -- number of release() calls Stop makes
ReleaseCalls(c) == IF c # "None" THEN 1 ELSE 0

\* lines 119-125 in program order: what one stop_navigation does to the
\* controls ("enable": btn_start NORMAL, btn_stop DISABLED) and to the camera
StopEvents(c) == <<"enable">> \o [i \in 1..ReleaseCalls(c) |-> "release"]

\* the frame cap.read() delivers: tagged with the camera session it is from
ReadFrame == opens

\* ---- UI thread: start_navigation ----
\* mutant: the running check is missing and Start goes on to activate again
start_reentered ==
    /\ UiIdle
    /\ is_running
    /\ after_queue' = update_status_label(after_queue, Activating)
    /\ ui_pc' = "start_speak"
    /\ lastOp' = "start_ignored"
    /\ UNCHANGED <<is_running, cap, latest_frame, ai_thread, elapsed,
                   btn_start, btn_stop, video_label, ai_status_label,
                   tick_pending, destroy_pending, alive,
                   workers, opens, released, stop_events>>

\* if self.is_running: return
start_ignored ==
    /\ UiIdle
    /\ is_running
    /\ lastOp' = "start_ignored"
    /\ UNCHANGED <<is_running, cap, latest_frame, ai_thread, elapsed,
                   btn_start, btn_stop, video_label, ai_status_label,
                   after_queue, tick_pending, ui_pc, destroy_pending, alive,
                   workers, opens, released, stop_events>>

\* mutant: the return after the error dialog is missing
start_failed_proceeds ==
    /\ UiIdle
    /\ ~is_running
    /\ cap' = "unopened"
    /\ is_running' = TRUE
    /\ btn_start' = "disabled"
    /\ btn_stop' = "normal"
    /\ after_queue' = update_status_label(after_queue, Activating)
    /\ ui_pc' = "start_speak"
    /\ lastOp' = "start_failed"
    /\ UNCHANGED <<latest_frame, ai_thread, elapsed, video_label,
                   ai_status_label, tick_pending, destroy_pending, alive,
                   workers, opens, released, stop_events>>

\* cap = cv2.VideoCapture(0); not isOpened(): showerror; return
start_failed ==
    /\ UiIdle
    /\ ~is_running
    /\ cap' = "unopened"
    /\ lastOp' = "start_failed"
    /\ UNCHANGED <<is_running, latest_frame, ai_thread, elapsed,
                   btn_start, btn_stop, video_label, ai_status_label,
                   after_queue, tick_pending, ui_pc, destroy_pending, alive,
                   workers, opens, released, stop_events>>

\* camera opened: lines 101-105, up to the blocking speak()
start_opened ==
    /\ UiIdle
    /\ ~is_running
    /\ opens < MaxSessions
    /\ cap' = "opened"
    /\ opens' = opens + 1
    /\ is_running' = TRUE
    /\ btn_start' = "disabled"
    /\ btn_stop' = "normal"
    /\ after_queue' = update_status_label(after_queue, Activating)
    /\ ui_pc' = "start_speak"
    /\ lastOp' = "other"
    /\ UNCHANGED <<latest_frame, ai_thread, elapsed, video_label,
                   ai_status_label, tick_pending, destroy_pending, alive,
                   workers, released, stop_events>>

\* mutant: update_frame schedules the next tick only after a successful read
update_frame_stalls(ret, p) ==
    IF is_running /\ cap # "None"
    THEN IF ret
         THEN /\ latest_frame' = ReadFrame
              /\ video_label' = ReadFrame
              /\ tick_pending' = p + 1
              /\ lastOp' = "other"
         ELSE /\ UNCHANGED <<latest_frame, video_label>>
              /\ tick_pending' = p
              /\ lastOp' = "read_failed"
    ELSE /\ UNCHANGED <<latest_frame, video_label>>
         /\ tick_pending' = p
         /\ lastOp' = "other"

\* update_frame body: read, store, display, reschedule; p is the number of
\* update_frame callbacks pending apart from the one running
update_frame(ret, p) ==
    IF is_running /\ cap # "None"
    THEN /\ IF ret
            THEN /\ latest_frame' = ReadFrame
                 /\ video_label' = ReadFrame
                 /\ lastOp' = "other"
            ELSE /\ UNCHANGED <<latest_frame, video_label>>
                 /\ lastOp' = "read_failed"
         /\ tick_pending' = p + 1
    ELSE /\ UNCHANGED <<latest_frame, video_label>>
         /\ tick_pending' = p
         /\ lastOp' = "other"

\* speak() returned in start_navigation: lines 108-109, the worker thread
\* is created and started
start_spawn ==
    /\ alive
    /\ ui_pc = "start_speak"
    /\ ai_thread' = opens
    /\ workers' = [workers EXCEPT ![opens] = NewWorker]
    /\ ui_pc' = "start_frame"
    /\ lastOp' = "other"
    /\ UNCHANGED <<is_running, cap, latest_frame, elapsed, btn_start, btn_stop,
                   video_label, ai_status_label, after_queue, tick_pending,
                   destroy_pending, alive, opens, released, stop_events>>

\* line 112: start_navigation calls update_frame() itself and returns
start_frame ==
    /\ alive
    /\ ui_pc = "start_frame"
    /\ \E ret \in BOOLEAN : update_frame(ret /\ cap = "opened", tick_pending)
    /\ ui_pc' = "idle"
    /\ UNCHANGED <<is_running, cap, ai_thread, elapsed, btn_start, btn_stop,
                   ai_status_label, after_queue, destroy_pending, alive,
                   workers, opens, released, stop_events>>

\* ---- UI thread: stop_navigation ----
\* mutant: the running check is missing and Stop shuts down again
stop_repeated ==
    /\ UiIdle
    /\ ~is_running
    /\ after_queue' = update_status_label(after_queue, Offline)
    /\ ui_pc' = "stop_speak"
    /\ lastOp' = "stop_ignored"
    /\ UNCHANGED <<is_running, cap, latest_frame, ai_thread, elapsed,
                   btn_start, btn_stop, video_label, ai_status_label,
                   tick_pending, destroy_pending, alive,
                   workers, opens, released, stop_events>>

\* if not self.is_running: return
stop_ignored ==
    /\ UiIdle
    /\ ~is_running
    /\ lastOp' = "stop_ignored"
    /\ UNCHANGED <<is_running, cap, latest_frame, ai_thread, elapsed,
                   btn_start, btn_stop, video_label, ai_status_label,
                   after_queue, tick_pending, ui_pc, destroy_pending, alive,
                   workers, opens, released, stop_events>>

\* mutant: Stop does not enable the Start button again
StopBodyStartKept(cont) ==
    /\ is_running
    /\ is_running' = FALSE
    /\ btn_stop' = "disabled"
    /\ released' = [released EXCEPT ![opens] = @ + ReleaseCalls(cap)]
    /\ stop_events' = StopEvents(cap)
    /\ cap' = "None"
    /\ video_label' = 0
    /\ after_queue' = update_status_label(after_queue, Offline)
    /\ ui_pc' = cont
    /\ UNCHANGED <<latest_frame, ai_thread, elapsed, ai_status_label, btn_start,
                   tick_pending, destroy_pending, alive, workers, opens>>

\* lines 118-130 up to the blocking speak(); cont is the handler to resume
StopBody(cont) ==
    /\ is_running
    /\ is_running' = FALSE
    /\ btn_start' = "normal"
    /\ btn_stop' = "disabled"
    /\ released' = [released EXCEPT ![opens] = @ + ReleaseCalls(cap)]
    /\ stop_events' = StopEvents(cap)
    /\ cap' = "None"
    /\ video_label' = 0
    /\ after_queue' = update_status_label(after_queue, Offline)
    /\ ui_pc' = cont
    /\ UNCHANGED <<latest_frame, ai_thread, elapsed, ai_status_label,
                   tick_pending, destroy_pending, alive, workers, opens>>

stop_navigation ==
    /\ UiIdle
    /\ StopBody("stop_speak")
    /\ lastOp' = "stop_navigation"

\* speak() returned in stop_navigation
stop_finish ==
    /\ alive
    /\ ui_pc = "stop_speak"
    /\ ui_pc' = "idle"
    /\ lastOp' = "other"
    /\ UNCHANGED <<is_running, cap, latest_frame, ai_thread, elapsed,
                   btn_start, btn_stop, video_label, ai_status_label,
                   after_queue, tick_pending, destroy_pending, alive,
                   workers, opens, released, stop_events>>

\* ---- UI thread: on_close ----
\* stop_navigation() on a running session, blocking in its speak()
on_close_running ==
    /\ UiIdle
    /\ ~destroy_pending
    /\ StopBody("close_speak")
    /\ lastOp' = "other"

\* stop_navigation() returns at once; window.after(200, destroy)
on_close_idle ==
    /\ UiIdle
    /\ ~destroy_pending
    /\ ~is_running
    /\ destroy_pending' = TRUE
    /\ lastOp' = "other"
    /\ UNCHANGED <<is_running, cap, latest_frame, ai_thread, elapsed,
                   btn_start, btn_stop, video_label, ai_status_label,
                   after_queue, tick_pending, ui_pc, alive,
                   workers, opens, released, stop_events>>

\* speak() returned in on_close's stop_navigation; window.after(200, destroy)
on_close_finish ==
    /\ alive
    /\ ui_pc = "close_speak"
    /\ ui_pc' = "idle"
    /\ destroy_pending' = TRUE
    /\ lastOp' = "other"
    /\ UNCHANGED <<is_running, cap, latest_frame, ai_thread, elapsed,
                   btn_start, btn_stop, video_label, ai_status_label,
                   after_queue, tick_pending, alive,
                   workers, opens, released, stop_events>>

\* self.window.destroy: mainloop returns and the process, daemon threads
\* included, ends
destroy ==
    /\ UiIdle
    /\ destroy_pending
    /\ alive' = FALSE
    /\ lastOp' = "other"
    /\ UNCHANGED <<is_running, cap, latest_frame, ai_thread, elapsed,
                   btn_start, btn_stop, video_label, ai_status_label,
                   after_queue, tick_pending, ui_pc, destroy_pending,
                   workers, opens, released, stop_events>>

\* ---- UI thread: scheduled callbacks ----
\* a pending window.after(20, self.update_frame) fires
capture_tick ==
    /\ UiIdle
    /\ tick_pending > 0
    /\ \E ret \in BOOLEAN :
          update_frame(ret /\ cap = "opened", tick_pending - 1)
    /\ UNCHANGED <<is_running, cap, ai_thread, elapsed,
                   btn_start, btn_stop, ai_status_label,
                   after_queue, ui_pc, destroy_pending, alive,
                   workers, opens, released, stop_events>>

\* the pending status callbacks run: ai_status_label.config(text=text)
status_callback ==
    /\ InMainloop
    /\ after_queue # <<>>
    /\ ai_status_label' = after_queue[Len(after_queue)]
    /\ after_queue' = <<>>
    /\ lastOp' = "other"
    /\ UNCHANGED <<is_running, cap, latest_frame, ai_thread, elapsed,
                   btn_start, btn_stop, video_label,
                   tick_pending, ui_pc, destroy_pending, alive,
                   workers, opens, released, stop_events>>

\* ---- advisory worker thread w: run_gemini_assistant ----
\* mutant: the loop never tests the flag
LoopForever == TRUE

\* while self.is_running:
LoopCondition == is_running

\* mutant: the check that a frame has been stored is missing
TimeToAskAnyFrame == elapsed > Interval

\* (time.time() - self.last_spoken_time > 4) and self.latest_frame is not None
TimeToAsk == (elapsed > Interval) /\ latest_frame # 0

\* one pass over lines 181-183 and 204: leave the loop when the flag is
\* down, go on to ask when it is time, else sleep and come back.  The flag is
\* written by Stop and Start only, which read neither the clock nor the
\* frame, so reading the flag and the if-condition in one step loses no
\* outcome.
worker_loop(w) ==
    /\ alive
    /\ workers[w].pc = "loop"
    /\ workers' = [workers EXCEPT ![w].pc =
                      IF ~LoopCondition THEN "done"
                      ELSE IF TimeToAsk THEN "ask" ELSE "loop"]
    /\ lastOp' = "other"
    /\ UNCHANGED <<is_running, cap, latest_frame, ai_thread, elapsed,
                   btn_start, btn_stop, video_label, ai_status_label,
                   after_queue, tick_pending, ui_pc, destroy_pending, alive,
                   opens, released, stop_events>>

\* lines 184-193: last_spoken_time = time.time(), post "Analyzing scene...",
\* and dispatch generate_content with the frame latest_frame holds now
worker_dispatch(w) ==
    /\ alive
    /\ workers[w].pc = "ask"
    /\ elapsed' = 0
    /\ after_queue' = update_status_label(after_queue, Analyzing)
    /\ workers' = [workers EXCEPT ![w].pc = "call"]
    /\ lastOp' = "other"
    /\ UNCHANGED <<is_running, cap, latest_frame, ai_thread,
                   btn_start, btn_stop, video_label, ai_status_label,
                   tick_pending, ui_pc, destroy_pending, alive,
                   opens, released, stop_events>>

\* mutant: the displayed status text is spoken, prefix included
SpokenTextPrefixed(advice) == CueText(advice)

\* self.speak(advice): the text handed to engine.say
SpokenText(advice) == advice

\* generate_content returned text t: lines 194-197 up to the blocking speak();
\* say is the text the worker's speak() call is uttering
worker_response(w) ==
    /\ alive
    /\ workers[w].pc = "call"
    /\ \E t \in Responses :
          /\ after_queue' = update_status_label(after_queue, CueText(Clean(t)))
          /\ workers' = [workers EXCEPT
                            ![w] = [pc |-> "speak", say |-> SpokenText(Clean(t))]]
    /\ lastOp' = "other"
    /\ UNCHANGED <<is_running, cap, latest_frame, ai_thread, elapsed,
                   btn_start, btn_stop, video_label, ai_status_label,
                   tick_pending, ui_pc, destroy_pending, alive,
                   opens, released, stop_events>>

\* mutant: the exception ends the thread instead of the cycle
worker_failure_fatal(w) ==
    /\ alive
    /\ workers[w].pc = "call"
    /\ after_queue' = update_status_label(after_queue, AIError)
    /\ workers' = [workers EXCEPT ![w].pc = "done"]
    /\ lastOp' = "other"
    /\ UNCHANGED <<is_running, cap, latest_frame, ai_thread, elapsed,
                   btn_start, btn_stop, video_label, ai_status_label,
                   tick_pending, ui_pc, destroy_pending, alive,
                   opens, released, stop_events>>

\* generate_content raised (timeout, transport error, malformed response):
\* lines 199-201
worker_failure(w) ==
    /\ alive
    /\ workers[w].pc = "call"
    /\ after_queue' = update_status_label(after_queue, AIError)
    /\ workers' = [workers EXCEPT ![w].pc = "loop"]
    /\ lastOp' = "other"
    /\ UNCHANGED <<is_running, cap, latest_frame, ai_thread, elapsed,
                   btn_start, btn_stop, video_label, ai_status_label,
                   tick_pending, ui_pc, destroy_pending, alive,
                   opens, released, stop_events>>

\* speak(advice) returned
worker_spoken(w) ==
    /\ alive
    /\ workers[w].pc = "speak"
    /\ workers' = [workers EXCEPT ![w] = [pc |-> "loop", say |-> <<>>]]
    /\ lastOp' = "other"
    /\ UNCHANGED <<is_running, cap, latest_frame, ai_thread, elapsed,
                   btn_start, btn_stop, video_label, ai_status_label,
                   after_queue, tick_pending, ui_pc, destroy_pending, alive,
                   opens, released, stop_events>>

\* ---- the clock ----
\* one second passes; past Interval the clock difference only grows, and
\* the code only compares it with Interval
clock_tick ==
    /\ alive
    /\ elapsed <= Interval
    /\ elapsed' = elapsed + 1
    /\ lastOp' = "other"
    /\ UNCHANGED <<is_running, cap, latest_frame, ai_thread,
                   btn_start, btn_stop, video_label, ai_status_label,
                   after_queue, tick_pending, ui_pc, destroy_pending, alive,
                   workers, opens, released, stop_events>>

Next ==
    \/ start_ignored
    \/ start_failed
    \/ start_opened
    \/ start_spawn
    \/ start_frame
    \/ stop_ignored
    \/ stop_navigation
    \/ stop_finish
    \/ on_close_running
    \/ on_close_idle
    \/ on_close_finish
    \/ destroy
    \/ capture_tick
    \/ status_callback
    \/ \E w \in Sessions : worker_loop(w)
    \/ \E w \in Sessions : worker_dispatch(w)
    \/ \E w \in Sessions : worker_response(w)
    \/ \E w \in Sessions : worker_failure(w)
    \/ \E w \in Sessions : worker_spoken(w)
    \/ clock_tick

Spec == Init /\ [][Next]_vars

\* the worker threads are scheduled, calls and speech return, the UI thread
\* returns to its mainloop and runs the callbacks it has pending, time passes
FairSpec ==
    /\ Spec
    /\ \A w \in Sessions :
          /\ WF_vars(worker_loop(w))
          /\ WF_vars(worker_dispatch(w))
          /\ WF_vars(worker_response(w) \/ worker_failure(w))
          /\ WF_vars(worker_spoken(w))
    /\ WF_vars(start_spawn)
    /\ WF_vars(start_frame)
    /\ WF_vars(stop_finish)
    /\ WF_vars(on_close_finish)
    /\ WF_vars(destroy)
    /\ WF_vars(clock_tick)
    /\ SF_vars(status_callback)
    /\ SF_vars(capture_tick)

\* ---- state functions used by the properties ----
InFlight == {w \in Sessions : workers[w].pc = "call"}

WorkerSpeaking == {w \in Sessions : workers[w].pc = "speak"}

\* the UI thread is inside speak()
UiSpeaking == ui_pc \in {"start_speak", "stop_speak", "close_speak"}

SpeakCalls == Cardinality(WorkerSpeaking) + (IF UiSpeaking THEN 1 ELSE 0)

\* session s was started and Stop has been executed on it
SessionStopped(s) == s < opens \/ (s = opens /\ ~is_running)

\* C1: at most one advisory request is in flight at any instant
C1_OneInFlight == Cardinality(InFlight) <= 1

\* C2: every advisory request is dispatched more than Interval seconds after
\* the dispatch of the request before it
C2_Spacing ==
    [][\A w \in Sessions :
          (workers[w].pc = "ask" /\ workers'[w].pc = "call")
             => elapsed > Interval]_vars

\* C3: the camera of every session that Stop has ended was released exactly
\* once, the camera of the session still running not at all
C3_ReleasedOnce ==
    \A s \in Sessions :
       released[s] = IF s <= opens /\ SessionStopped(s) THEN 1 ELSE 0

\* C3 witness: Stop has just run with a capture tick pending and an advisory
\* request in flight
C3_Witness ==
    /\ lastOp = "stop_navigation"
    /\ tick_pending > 0
    /\ InFlight # {}
    /\ released[opens] = 1

\* C4: a Stop on a session that is already stopped changes neither the
\* running flag, the camera handle, the buttons nor the published status,
\* and releases nothing
C4_StopIdempotent ==
    [][lastOp' = "stop_ignored"
          => UNCHANGED <<is_running, cap, btn_start, btn_stop,
                         ai_status_label, after_queue, released, ui_pc>>]_vars

\* C4 witness: a second Stop ran after the Stop that ended a session
C4_Witness ==
    /\ lastOp = "stop_ignored"
    /\ opens > 0
    /\ released[opens] = 1

\* C5: a Start whose camera does not open leaves running false, spawns no
\* worker, schedules no capture tick and leaves the buttons alone
C5_FailedStart ==
    [][lastOp' = "start_failed"
          => /\ ~is_running'
             /\ UNCHANGED <<is_running, workers, ai_thread, tick_pending,
                            btn_start, btn_stop, ui_pc>>]_vars

\* C5 witness: a Start has just failed to open the camera
C5_Witness == lastOp = "start_failed" /\ cap = "unopened"

\* C6: a Start on a running session changes nothing
C6_StartIgnored ==
    [][lastOp' = "start_ignored"
          => UNCHANGED <<is_running, cap, latest_frame, ai_thread, elapsed,
                         btn_start, btn_stop, video_label, ai_status_label,
                         after_queue, tick_pending, ui_pc, destroy_pending,
                         alive, workers, opens, released, stop_events>>]_vars

\* C6 witness: Start was invoked on a running session
C6_Witness == lastOp = "start_ignored" /\ is_running /\ cap = "opened"

\* C7: once Stop has been executed on a session, the worker started for it
\* eventually leaves its loop
C7_WorkerExits ==
    \A s \in Sessions :
       (alive /\ SessionStopped(s) /\ workers[s].pc # "none")
          ~> (workers[s].pc = "done" \/ ~alive)

\* C8: while a session runs, LatestFrame is empty or a frame of that session
C8_NoStaleFrame == is_running => latest_frame \in {0, opens}

\* C9: the UI thread is never inside the blocking speak()
C9_UiNeverBlocks == ~UiSpeaking

\* C10: at most one speak call is in progress at any instant
C10_SpeakSerialized == SpeakCalls <= 1

\* a step of update_frame that reads the camera: the capture tick, or the
\* call Start makes itself
CaptureStep ==
    /\ ui_pc = "start_frame" \/ (UiIdle /\ tick_pending > 0)
    /\ is_running
    /\ cap = "opened"

\* worker w dispatches a request in this step
Dispatches(w) == workers[w].pc = "ask" /\ workers'[w].pc = "call"

\* C11: LatestFrame changes only in a capture step, to the frame the camera
\* delivered, and every request is dispatched with a stored frame, one the
\* capture loop has written
C11_FrameBuffer ==
    [][/\ latest_frame' # latest_frame
          => CaptureStep /\ latest_frame' = ReadFrame
       /\ \A w \in Sessions :
             Dispatches(w)
                => /\ latest_frame \in 1..opens
                   /\ latest_frame' = latest_frame]_vars

\* C11 witness: two requests are in flight, both dispatched with the frame
\* that is still stored
C11_Witness == Cardinality(InFlight) = 2 /\ latest_frame # 0

\* worker w receives a response and goes on to speak (lines 194-197)
Responds(w) == workers[w].pc = "call" /\ workers'[w].pc = "speak"

\* the cleaned instructions of the response texts, as line 194 computes them
CleanedResponses == { Clean(t) : t \in Responses }

\* C12: on a successful advisory call returning text T the status posted is
\* "AI Cue: " followed by clean(T), and the text handed to the Speaker is
\* exactly clean(T), the same string that is displayed after the prefix.
C12_CueShownAndSpoken ==
    [][\A w \in Sessions :
          Responds(w)
             => /\ workers'[w].say \in CleanedResponses
                /\ after_queue' = << CuePrefix \o workers'[w].say >>]_vars

C12_Witness ==
    \E w \in Sessions :
       /\ workers[w].pc = "speak"
       /\ workers[w].say = <<"a">>
       /\ ai_status_label = CuePrefix \o <<"a">>

\* texts without '*' and without leading or trailing whitespace
NoStar(s) == \A i \in 1..Len(s) : s[i] # "*"

NoOuterWhitespace(s) ==
    s = <<>> \/ (s[1] \notin Whitespace /\ s[Len(s)] \notin Whitespace)

\* C13: the cleaned instruction that is published and spoken contains no
\* '*' and has no leading or trailing whitespace.
C13_CleanedText ==
    \A w \in Sessions :
       workers[w].pc = "speak"
          => NoStar(workers[w].say) /\ NoOuterWhitespace(workers[w].say)

\* worker w's call ends without a response (lines 199-201)
Fails(w) == workers[w].pc = "call" /\ workers'[w].pc \notin {"call", "speak"}

\* C14: when an advisory call fails the worker posts the generic failure
\* status, hands nothing to the Speaker, leaves the running flag as it is and
\* goes back to polling; it then leaves the loop only on a lowered flag.
C14_FailureContinues ==
    [][\A w \in Sessions :
          /\ Fails(w)
                => /\ after_queue' = <<AIError>>
                   /\ workers'[w] = [pc |-> "loop", say |-> <<>>]
                   /\ SpeakCalls' = SpeakCalls
                   /\ is_running' = is_running
                   /\ alive'
          /\ (workers[w].pc = "loop" /\ workers'[w].pc = "done")
                => ~is_running]_vars

C14_Witness ==
    \E w \in Sessions :
       /\ workers[w].pc = "ask"
       /\ ai_status_label = AIError
       /\ is_running

\* C15: within one Stop the camera is released before the controls are
\* re-enabled (Start enabled, Stop disabled).
C15_ReleaseBeforeEnable ==
    \A i, j \in 1..Len(stop_events) :
       (stop_events[i] = "release" /\ stop_events[j] = "enable") => i < j

\* C16: between handlers exactly one of the Start and Stop buttons is
\* enabled: Start exactly when the session is not running, Stop exactly when
\* it is running.
C16_ButtonsExclusive ==
    InMainloop
       => /\ (btn_start = "normal") # (btn_stop = "normal")
          /\ (btn_start = "normal") <=> ~is_running
          /\ (btn_stop = "normal") <=> is_running

\* after a Start, a Stop and a failed Start
C16_Witness ==
    /\ InMainloop
    /\ opens > 0
    /\ cap = "unopened"
    /\ btn_start = "normal"
    /\ btn_stop = "disabled"

\* C17: a capture tick whose camera read fails while the session is running
\* is skipped: the stored and the displayed frame, the running flag, the
\* camera, the status and the buttons are as before, and a next tick is
\* scheduled.
C17_ReadFailureSkipped ==
    [][lastOp' = "read_failed"
          => /\ is_running /\ is_running'
             /\ UNCHANGED <<latest_frame, video_label, cap, ai_status_label,
                            after_queue, btn_start, btn_stop, workers>>
             /\ tick_pending' > 0]_vars

\* a read failed after a frame had been stored and displayed
C17_Witness ==
    /\ lastOp = "read_failed"
    /\ latest_frame = opens
    /\ video_label = opens
    /\ tick_pending > 0

\* a worker posts a status text: the pending text changes other than by the
\* status callbacks running
WorkerPosts ==
    /\ after_queue' \notin {after_queue, <<>>}
    /\ \E w \in Sessions : workers'[w].pc # workers[w].pc

\* C18 as stated: from a Stop until the next Start no worker posts a status
\* text or enters speak().
C18_SilentAfterStop ==
    [][(~is_running /\ ~is_running')
          => /\ ~WorkerPosts
             /\ \A w \in Sessions : ~Responds(w)]_vars

\* C18 amended: a worker that tests its loop condition while the session is
\* stopped begins no new cycle and ends for good; while stopped, a status
\* text is posted only by a cycle that had passed the loop test before (a
\* request about to be dispatched or in flight).
C18_NoNewCycleAfterStop ==
    [][/\ \A w \in Sessions :
             /\ (~is_running /\ workers[w].pc = "loop")
                   => workers'[w].pc \in {"loop", "done"}
             /\ workers[w].pc = "done" => workers'[w].pc = "done"
       /\ (~is_running /\ ~is_running' /\ WorkerPosts)
             => \E w \in Sessions :
                   /\ workers[w].pc \in {"ask", "call"}
                   /\ workers'[w].pc # workers[w].pc]_vars

\* the only session is stopped, its worker has ended, and the status shown
\* is the one its last call posted after Stop's
C18_Witness ==
    /\ UiIdle
    /\ opens = 1
    /\ ~is_running
    /\ workers[1].pc = "done"
    /\ ai_status_label = AIError

\* C19: at most one update_frame callback is pending on the UI scheduler.
C19_OneTickChain == tick_pending <= 1

\* update_frame is about to issue cap.read(): it is due to run and its guard
\* at line 142 holds
ReadIssued ==
    /\ ui_pc = "start_frame" \/ (UiIdle /\ tick_pending > 0)
    /\ is_running
    /\ cap # "None"

\* C20: the session is running only with an opened, unreleased camera, and a
\* capture tick reads only from an open camera.
C20_RunningHasCamera ==
    /\ is_running => cap = "opened"
    /\ ReadIssued => cap = "opened"

\* a tick is pending after Stop released the camera
C20_Witness ==
    /\ UiIdle
    /\ tick_pending > 0
    /\ ~is_running
    /\ cap = "None"
    /\ released[opens] = 1

TypeOK ==
    /\ is_running \in BOOLEAN
    /\ cap \in {"None", "opened", "unopened"}
    /\ latest_frame \in 0..MaxSessions
    /\ tick_pending \in 0..MaxSessions
    /\ Len(after_queue) <= 1
    /\ elapsed \in 0..(Interval + 1)

====
